---- MODULE Spec2Model ----
(***************************************************************************)
(* A model of src/drive.py: the range-addressed resumable download         *)
(* (Key.receive), the resumable upload request (ResumableUploadRequest)    *)
(* and the remote tree (Remotefolder / Key) over a Drive-like store.       *)
(*                                                                         *)
(* The remote side (the HTTP transport and the store) is the environment:  *)
(* every response it can give is drawn with \E inside the action of the    *)
(* handler that issues the request.                                        *)
(***************************************************************************)
EXTENDS Integers, Sequences, FiniteSets, TLC

VARIABLES
    \* ---- download: Key.receive -------------------------------------
    remote_obj,         \* bytes of the remote object (never changes)
    chunksize,          \* the chunksize argument of receive
    local_file,         \* the destination file: [exists, data]
    rpc,                \* position of receive: idle / loop / returned / raised
    local_file_size,    \* local variable of receive
    remote_file_size,   \* local variable of receive
    requests,           \* range requests issued by the running invocation
    callbacks,          \* values passed to progress_handler by the running invocation
    start_file,         \* the destination file as the running invocation found it
    done,               \* finished invocations of receive, oldest first
    \* ---- upload: ResumableUploadRequest ---------------------------
    media_body,         \* the local source: [data, chunksize]
    sessions,           \* the remote's resumable sessions, by upload id
    _upload_id,         \* field of the request object (None or an id)
    _resumable_uri,     \* field of the request object (None or a uri)
    _resumable_progress,\* field of the request object (None or an offset)
    _range_md5,         \* field of the request object: the running md5
    objects,            \* request objects constructed so far
    calls,              \* calls made on the current object
    supplied,           \* the upload_id the current object was built with
    posts,              \* sessions the current object initiated (answered POSTs)
    last_call,          \* what the last call on the request object did
    \* ---- remote tree: Remotefolder / Key -------------------------
    store,              \* the store's entries: [id, parent, name, mimeType]
    next_id,            \* the id the store gives its next entry
    res,                \* the last call on a node and what it did
    \* ---- node objects: Remotefolder / Key / GoogleDrive ----------
    heap,               \* the node objects the client holds, by handle
    log                 \* the last call on a node object and what it did

dlvars == <<remote_obj, chunksize, local_file, rpc, local_file_size,
            remote_file_size, requests, callbacks, start_file, done>>

upvars == <<media_body, sessions, _upload_id, _resumable_uri,
            _resumable_progress, _range_md5, objects, calls, supplied, posts,
            last_call>>

treevars == <<store, next_id, res>>

nodevars == <<heap, log>>

vars == <<dlvars, upvars, treevars, nodevars>>

(***************************************************************************)
(* Bounds of the model.                                                    *)
(***************************************************************************)
MaxSize == 3
MaxChunk == 3
MaxCalls == 2
MaxSessions == 2
MaxObjects == 2
MaxNextChunk == 3
MaxMediaSize == 2
MaxMediaChunk == 2
MaxEntries == 3
MaxPathEntries == 3
MaxPathLen == 3
MaxNodeEntries == 2
MaxNodes == 2

None == <<>>

Some(v) == <<v>>

(***************************************************************************)
(* Helpers.                                                                *)
(***************************************************************************)
Min(a, b) == IF a < b THEN a ELSE b

Max(a, b) == IF a > b THEN a ELSE b

RECURSIVE SumSeq(_)
SumSeq(s) == IF s = <<>> THEN 0 ELSE Head(s) + SumSeq(Tail(s))

RECURSIVE Flatten(_)
Flatten(ss) == IF ss = <<>> THEN <<>> ELSE Head(ss) \o Flatten(Tail(ss))

\* str(n) for n >= 0: the decimal digits, most significant first.
RECURSIVE Str(_)
Str(n) == IF n < 10 THEN <<n>> ELSE Str(n \div 10) \o <<n % 10>>

\* int(s) for a sequence of decimal digits.
RECURSIVE Int10(_)
Int10(s) == IF s = <<>> THEN 0 ELSE 10 * Int10(SubSeq(s, 1, Len(s) - 1)) + s[Len(s)]

(***************************************************************************)
(* The local file system: one destination path.                            *)
(***************************************************************************)
Missing == [exists |-> FALSE, data |-> <<>>]

File(bytes) == [exists |-> TRUE, data |-> bytes]

\* A receive that never looks at the destination's size.
GetSizeIgnored(f) == 0

\* os.path.getsize with the FileNotFoundError handler of receive.
GetSizeOrZero(f) == IF f.exists THEN Len(f.data) ELSE 0

\* open(local_file, 'ab'): creates the file when missing, keeps its bytes.
OpenAppend(f) == File(f.data)

\* fh.write(content) on a file opened for appending.
WriteAppend(f, content) == File(f.data \o content)

(***************************************************************************)
(* The remote object and the transport's answers to a range request.       *)
(* Byte i of the remote object carries the value i; 0 is a byte that       *)
(* no remote object holds.                                                 *)
(***************************************************************************)
RemoteObjects == { [i \in 1..n |-> i] : n \in 0..MaxSize }

Garbage(k) == [i \in 1..k |-> 0]

InitialFiles(r) ==
    {Missing}
        \cup { File(SubSeq(r, 1, k)) : k \in 0..Len(r) }
        \cup { File(Garbage(k)) : k \in 1..(MaxSize + 1) }

PartialContent == 206

OtherStatuses == {200, 416, 500}

\* "bytes={}-{}".format(local_file_size, local_file_size+chunksize-1)
DownloadRange(size, chunk) == [first |-> size, last |-> size + chunk - 1]

\* A transport whose 206 answer may carry no byte at all.
RangeAnswersOrNothing(obj, rg) ==
    LET avail == Min(rg.last, Len(obj) - 1) - rg.first + 1
    IN  { SubSeq(obj, rg.first + 1, rg.first + k) : k \in 0..avail }

\* The bytes of obj a 206 answer to range rg may carry: the range cut at the
\* object's end, or a shorter non-empty prefix of it.
RangeAnswers(obj, rg) ==
    LET avail == Min(rg.last, Len(obj) - 1) - rg.first + 1
    IN  { SubSeq(obj, rg.first + 1, rg.first + k) : k \in 1..avail }

\* What self.service._http.request(download_url, headers={'Range': rg}) can
\* return: (resp, content).
RangeResponses(obj, rg) ==
    { [status |-> PartialContent, content |-> c,
       headers |-> [content_length |-> Str(Len(c))]] : c \in RangeAnswers(obj, rg) }
        \cup
    { [status |-> st, content |-> <<>>,
       headers |-> [content_length |-> Str(0)]] : st \in OtherStatuses }

(***************************************************************************)
(* Key.receive                                                             *)
(***************************************************************************)
Finished(outcome, f, reqs, cbs) ==
    [start_file |-> start_file, outcome |-> outcome, requests |-> reqs,
     callbacks |-> cbs, end_file |-> f, remote_size |-> Len(remote_obj)]

\* Lines 128-141: size of the destination, size of the remote object, open
\* for appending, first test of the loop condition.
ReceiveStart ==
    /\ rpc # "loop"
    /\ Len(done) < MaxCalls
    /\ start_file' = local_file
    /\ requests' = <<>>
    /\ callbacks' = <<>>
    /\ \E meta_ok \in BOOLEAN :
         IF meta_ok
         THEN /\ local_file_size' = GetSizeOrZero(local_file)
              /\ remote_file_size' = Len(remote_obj)
              /\ local_file' = OpenAppend(local_file)
              /\ IF local_file_size' < remote_file_size'
                 THEN /\ rpc' = "loop"
                      /\ done' = done
                 ELSE /\ rpc' = "returned"
                      /\ done' = Append(done,
                            [start_file |-> local_file, outcome |-> "returned",
                             requests |-> <<>>, callbacks |-> <<>>,
                             end_file |-> local_file',
                             remote_size |-> Len(remote_obj)])
         ELSE \* files().get(...).execute() raises before the file is opened
              /\ local_file_size' = GetSizeOrZero(local_file)
              /\ remote_file_size' = remote_file_size
              /\ local_file' = local_file
              /\ rpc' = "raised"
              /\ done' = Append(done,
                    [start_file |-> local_file, outcome |-> "HttpError",
                     requests |-> <<>>, callbacks |-> <<>>,
                     end_file |-> local_file,
                     remote_size |-> Len(remote_obj)])
    /\ UNCHANGED <<remote_obj, chunksize>>
    /\ UNCHANGED <<upvars, treevars, nodevars>>

\* A receive that counts the requested chunk, not the returned bytes.
AdvanceByChunk(resp, chunk) == chunk

\* The size receive adds to local_file_size after a 206 answer.
Advance(resp, chunk) == Int10(resp.headers.content_length)

\* A receive that takes every answer for a chunk.
AcceptedAlways(resp) == TRUE

\* Whether an answer is accepted as a chunk (line 150).
Accepted(resp) == resp.status = PartialContent

\* Lines 141-156: one turn of the loop, with the test of the loop condition
\* that follows it.
ReceiveChunk ==
    /\ rpc = "loop"
    /\ LET download_range == DownloadRange(local_file_size, chunksize)
       IN  \E resp \in RangeResponses(remote_obj, download_range) :
             LET req == [first |-> download_range.first,
                         last |-> download_range.last,
                         status |-> resp.status,
                         content |-> resp.content]
             IN  /\ requests' = Append(requests, req)
                 /\ IF Accepted(resp)
                    THEN /\ local_file' = WriteAppend(local_file, resp.content)
                         /\ local_file_size' = local_file_size + Advance(resp, chunksize)
                         /\ callbacks' = Append(callbacks, local_file_size')
                         /\ IF local_file_size' < remote_file_size
                            THEN /\ rpc' = "loop"
                                 /\ done' = done
                            ELSE /\ rpc' = "returned"
                                 /\ done' = Append(done,
                                       Finished("returned", local_file', requests', callbacks'))
                    ELSE /\ rpc' = "raised"
                         /\ done' = Append(done,
                               Finished("HttpError", local_file, requests', callbacks))
                         /\ UNCHANGED <<local_file, local_file_size, callbacks>>
    /\ UNCHANGED <<remote_obj, chunksize, remote_file_size, start_file>>
    /\ UNCHANGED <<upvars, treevars, nodevars>>

DownloadIdle ==
    /\ remote_obj = <<>>
    /\ chunksize = 1
    /\ local_file = Missing
    /\ rpc = "idle"
    /\ local_file_size = 0
    /\ remote_file_size = 0
    /\ requests = <<>>
    /\ callbacks = <<>>
    /\ start_file = Missing
    /\ done = <<>>


(***************************************************************************)
(* ResumableUploadRequest and the remote's resumable sessions.             *)
(***************************************************************************)
\* hashlib.md5(): the running digest is kept as the bytes fed to it, and two
\* digests are equal exactly when the bytes fed are.
Md5New == [fed |-> <<>>]

Md5Update(h, bytes) == [fed |-> h.fed \o bytes]

HexDigest(h) == <<"md5", h.fed>>

Md5Of(bytes) == HexDigest(Md5Update(Md5New, bytes))

\* ".../upload/drive/v3/files?uploadType=resumable&upload_id={}".format(id)
Uri(id) == [path |-> "/upload/drive/v3/files", uploadType |-> "resumable",
            upload_id |-> id]

\* parse_qs(urlparse(uri).query)['upload_id'][0]
ParseUploadId(uri) == uri.upload_id

\* int(byte_range.replace('bytes=0-', '', 1)) + 1 for a header "bytes=0-<last>"
ProgressOfRange(byte_range) == Int10(byte_range.last) + 1

\* The header 'range' of the remote's answer to a probe: "bytes=0-<n-1>".
RangeHeader(n) == [unit |-> "bytes", first |-> Str(0), last |-> Str(n - 1)]

MediaBodies ==
    { [data |-> [i \in 1..n |-> i], chunksize |-> c] :
        n \in 1..MaxMediaSize, c \in 1..MaxMediaChunk }

\* media_body.getbytes(begin, length)
GetBytes(media, begin, length) == SubSeq(media.data, begin + 1, begin + length)

\* The fields __init__ leaves (lines 165-171). The upload_id setter (line 168,
\* lines 181-183) stores a uri for a given upload_id; line 170 then assigns
\* None to _resumable_uri.
ConstructedUri(upload_id) ==
    LET by_setter == IF upload_id # None THEN Some(Uri(upload_id[1])) ELSE None
        by_line_170 == None
    IN  by_line_170

NoCall ==
    [op |-> "none", outcome |-> "returned", error |-> "", posted |-> FALSE,
     probed |-> FALSE, chunk |-> None, response |-> None,
     progress_at_send |-> None, retry |-> None, remote_ok |-> TRUE]

\* ResumableUploadRequest(service, media_body, body, upload_id)
Construct(upload_id) ==
    /\ objects < MaxObjects
    /\ objects' = objects + 1
    /\ calls' = 0
    /\ supplied' = upload_id
    /\ posts' = 0
    /\ _upload_id' = upload_id
    /\ _resumable_progress' = None
    /\ _resumable_uri' = ConstructedUri(upload_id)
    /\ _range_md5' = Md5New
    /\ last_call' = [NoCall EXCEPT !.op = "init", !.retry = upload_id]
    /\ UNCHANGED <<media_body, sessions>>

\* A new request object for a session established before (the upload_id a
\* caller kept), or for no session.
NewRequest ==
    /\ \E upload_id \in {None} \cup { Some(i) : i \in 1..Len(sessions) } :
          Construct(upload_id)
    /\ UNCHANGED <<dlvars, treevars, nodevars>>

\* The remote's answers to the session-initiation POST (line 189): a new
\* session and its location, or no answer (the request raises).
PostAnswers(sess) ==
    { [raises |-> TRUE, sessions |-> sess, location |-> None] }
        \cup
    IF Len(sess) < MaxSessions
    THEN { [raises |-> FALSE,
            sessions |-> Append(sess, [accepted |-> <<>>, complete |-> FALSE]),
            location |-> Some(Uri(Len(sess) + 1))] }
    ELSE {}

\* The property resumable_uri (lines 185-191) read with the field at uri:
\* [error, uri, sessions, posted].
ResumableUriReads(uri, sess) ==
    IF uri # None
    THEN { [error |-> "", uri |-> uri, sessions |-> sess, posted |-> FALSE] }
    ELSE { [error |-> IF a.raises THEN "TransportError" ELSE "",
            uri |-> a.location, sessions |-> a.sessions, posted |-> TRUE] :
              a \in PostAnswers(sess) }

\* The remote's answers to the probe "bytes */<size>" on session id: the
\* header 'range' names the bytes it holds, and is absent when it holds none
\* or the upload is complete.
ProbeAnswers(sess, id) ==
    { [raises |-> TRUE, range |-> None] }
        \cup
    { [raises |-> FALSE,
       range |-> IF sess[id].accepted = <<>> \/ sess[id].complete
                 THEN None
                 ELSE Some(RangeHeader(Len(sess[id].accepted)))] }

\* The property resumable_progress (lines 198-207) read with the fields at
\* progress and uri: [error, value, progress, probed, honest].
ResumableProgressReads(progress, uri, sess) ==
    IF progress # None
    THEN { [error |-> "", value |-> progress[1], progress |-> progress,
            probed |-> FALSE] }
    ELSE IF uri = None
    THEN { [error |-> "", value |-> 0, progress |-> None, probed |-> FALSE] }
    ELSE { IF a.raises
           THEN [error |-> "TransportError", value |-> 0, progress |-> None,
                 probed |-> TRUE]
           ELSE IF a.range = None
           THEN [error |-> "KeyError", value |-> 0, progress |-> None,
                 probed |-> TRUE]
           ELSE [error |-> "", value |-> ProgressOfRange(a.range[1]),
                 progress |-> Some(ProgressOfRange(a.range[1])),
                 probed |-> TRUE] :
             a \in ProbeAnswers(sess, ParseUploadId(uri[1])) }

ErrorStatuses == {"404", "503"}

\* The remote's answers to a chunk PUT of bytes at offset on session s:
\* [raises, status, body, digest, session, honest]. An honest answer takes
\* the bytes when they continue what the session holds, and echoes the md5
\* of all bytes held (308) or returns the finished file (200, with a body).
ChunkAnswers(s, offset, bytes, total) ==
    LET fits == ~s.complete /\ offset = Len(s.accepted) /\ bytes # <<>>
        taken == [accepted |-> s.accepted \o bytes,
                  complete |-> Len(s.accepted \o bytes) = total]
        kept == { s } \cup (IF fits THEN { taken } ELSE {})
    IN  \* the request raises; the remote may have taken the bytes
        { [raises |-> TRUE, status |-> "", body |-> FALSE, digest |-> None,
           session |-> t, honest |-> FALSE] : t \in kept }
          \cup
        \* an honest answer to bytes that fit
        (IF fits
         THEN { IF taken.complete
                THEN [raises |-> FALSE, status |-> "200", body |-> TRUE,
                      digest |-> None, session |-> taken, honest |-> TRUE]
                ELSE [raises |-> FALSE, status |-> "308", body |-> FALSE,
                      digest |-> Some(Md5Of(taken.accepted)),
                      session |-> taken, honest |-> TRUE] }
         ELSE {})
          \cup
        \* resume incomplete with a digest that is not the md5 of the bytes held
        { [raises |-> FALSE, status |-> "308", body |-> FALSE,
           digest |-> Some(Md5Of(t.accepted \o <<0>>)),
           session |-> t, honest |-> FALSE] :
             t \in { u \in kept : ~u.complete } }
          \cup
        \* an error status, with or without a body
        { [raises |-> FALSE, status |-> st, body |-> b, digest |-> None,
           session |-> s, honest |-> FALSE] :
             st \in ErrorStatuses, b \in BOOLEAN }

\* A next_chunk that trusts the remote's digest unseen.
ChecksumUnchecked(digest, md5) == TRUE

\* Line 219: the remote's x-range-md5 against the running digest.
ChecksumOk(digest, md5) == digest = HexDigest(md5)

\* Lines 214-222 after the answer (status, resp) to the chunk:
\* [error, progress, md5].
AfterChunk(answer, progress, md5, bytes, content_length) ==
    IF answer.body
    THEN [error |-> "", progress |-> progress, md5 |-> md5]
    ELSE IF answer.status = "308"
    THEN LET updated == Md5Update(md5, bytes)
         IN  IF ~ChecksumOk(answer.digest[1], updated)
             THEN [error |-> "ChecksumMismatch", progress |-> progress,
                   md5 |-> updated]
             ELSE IF progress = None
             THEN \* None += content_length
                  [error |-> "TypeError", progress |-> progress, md5 |-> updated]
             ELSE [error |-> "", progress |-> Some(progress[1] + content_length),
                   md5 |-> updated]
    ELSE [error |-> "", progress |-> progress, md5 |-> md5]

\* Whether the call that follows last_call is a fresh attempt after a failed
\* one, and on which session: the upload id the object was built from, or
\* the session of the attempt that failed.
RetryOf(call, uri) ==
    IF call.op = "init" THEN call.retry
    ELSE IF call.op = "next_chunk" /\ call.outcome = "raised"
            /\ call.error \in {"TransportError", "ChecksumMismatch"}
            /\ uri # None
    THEN Some(ParseUploadId(uri[1]))
    ELSE None

\* next_chunk (lines 209-222).
NextChunk ==
    /\ calls < MaxNextChunk
    /\ calls' = calls + 1
    /\ \E pr \in ResumableProgressReads(_resumable_progress, _resumable_uri, sessions) :
        LET retry == RetryOf(last_call, _resumable_uri)
            held == IF retry = None THEN 0 ELSE Len(sessions[retry[1]].accepted)
            call == [NoCall EXCEPT !.op = "next_chunk", !.probed = pr.probed,
                                   !.progress_at_send = pr.progress,
                                   !.retry = retry]
        IN
        IF pr.error # ""
        THEN /\ last_call' = [call EXCEPT !.outcome = "raised", !.error = pr.error,
                                          !.remote_ok = (pr.error # "TransportError")]
             /\ UNCHANGED <<sessions, _upload_id, _resumable_uri,
                            _resumable_progress, _range_md5, posts>>
        ELSE
        LET content_length == Min(Len(media_body.data) - pr.value, media_body.chunksize)
            bytes == GetBytes(media_body, pr.value, content_length)
        IN
        \E ur \in ResumableUriReads(_resumable_uri, sessions) :
        IF ur.error # ""
        THEN /\ last_call' = [call EXCEPT !.outcome = "raised", !.error = ur.error,
                                          !.posted = ur.posted, !.remote_ok = FALSE]
             /\ _resumable_progress' = pr.progress
             /\ UNCHANGED <<sessions, _upload_id, _resumable_uri, _range_md5, posts>>
        ELSE
        LET id == ParseUploadId(ur.uri[1])
        IN
        \E answer \in ChunkAnswers(ur.sessions[id], pr.value, bytes,
                                   Len(media_body.data)) :
        LET sent == [uri |-> ur.uri[1], offset |-> pr.value,
                     length |-> content_length, held |-> held]
            after == IF answer.raises
                     THEN [error |-> "TransportError", progress |-> pr.progress,
                           md5 |-> _range_md5]
                     ELSE AfterChunk(answer, pr.progress, _range_md5, bytes,
                                     content_length)
        IN  /\ sessions' = [ur.sessions EXCEPT ![id] = answer.session]
            /\ _resumable_uri' = ur.uri
            /\ posts' = IF ur.posted THEN posts + 1 ELSE posts
            /\ _resumable_progress' = after.progress
            /\ _range_md5' = after.md5
            /\ last_call' =
                  [call EXCEPT !.outcome = IF after.error = "" THEN "returned"
                                           ELSE "raised",
                               !.error = after.error,
                               !.posted = ur.posted,
                               !.chunk = Some(sent),
                               !.response = IF answer.raises THEN None
                                            ELSE Some([status |-> answer.status,
                                                       body |-> answer.body,
                                                       digest |-> answer.digest,
                                                       local |-> HexDigest(after.md5)]),
                               !.remote_ok = answer.honest]
            /\ UNCHANGED _upload_id
    /\ UNCHANGED <<media_body, objects, supplied>>
    /\ UNCHANGED <<dlvars, treevars, nodevars>>

\* request.upload_id (lines 173-177)
ReadUploadId ==
    /\ calls < MaxNextChunk
    /\ calls' = calls + 1
    /\ LET call == [NoCall EXCEPT !.op = "upload_id"]
       IN  IF _upload_id # None
           THEN /\ last_call' = call
                /\ UNCHANGED <<sessions, _upload_id, _resumable_uri, posts>>
           ELSE \E ur \in ResumableUriReads(_resumable_uri, sessions) :
                  /\ posts' = IF ur.posted /\ ur.error = "" THEN posts + 1 ELSE posts
                  /\ IF ur.error # ""
                     THEN /\ last_call' = [call EXCEPT !.outcome = "raised",
                                                       !.error = ur.error,
                                                       !.posted = ur.posted,
                                                       !.remote_ok = FALSE]
                          /\ UNCHANGED <<sessions, _upload_id, _resumable_uri>>
                     ELSE /\ last_call' = [call EXCEPT !.posted = ur.posted]
                          /\ sessions' = ur.sessions
                          /\ _resumable_uri' = ur.uri
                          /\ _upload_id' = Some(ParseUploadId(ur.uri[1]))
    /\ UNCHANGED <<media_body, objects, supplied, _resumable_progress, _range_md5>>
    /\ UNCHANGED <<dlvars, treevars, nodevars>>

\* request.upload_id = upload_id (lines 179-183): a truthy upload_id also
\* stores the uri of its session.
SetUploadId ==
    /\ calls < MaxNextChunk
    /\ calls' = calls + 1
    /\ \E upload_id \in {None} \cup { Some(i) : i \in 1..Len(sessions) } :
         /\ _upload_id' = upload_id
         /\ _resumable_uri' = IF upload_id # None THEN Some(Uri(upload_id[1]))
                                                  ELSE _resumable_uri
         /\ last_call' = [NoCall EXCEPT !.op = "set_upload_id"]
    /\ UNCHANGED <<media_body, sessions, objects, supplied, posts,
                   _resumable_progress, _range_md5>>
    /\ UNCHANGED <<dlvars, treevars, nodevars>>

\* request.resumable_uri = resumable_uri (lines 193-195)
SetResumableUri ==
    /\ calls < MaxNextChunk
    /\ calls' = calls + 1
    /\ \E resumable_uri \in {None} \cup { Some(Uri(i)) : i \in 1..Len(sessions) } :
         /\ _resumable_uri' = resumable_uri
         /\ last_call' = [NoCall EXCEPT !.op = "set_resumable_uri"]
    /\ UNCHANGED <<media_body, sessions, objects, supplied, posts, _upload_id,
                   _resumable_progress, _range_md5>>
    /\ UNCHANGED <<dlvars, treevars, nodevars>>

\* request.resumable_progress (lines 198-207)
ReadResumableProgress ==
    /\ calls < MaxNextChunk
    /\ calls' = calls + 1
    /\ \E pr \in ResumableProgressReads(_resumable_progress, _resumable_uri, sessions) :
         /\ _resumable_progress' = pr.progress
         /\ last_call' = [NoCall EXCEPT !.op = "resumable_progress",
                                        !.outcome = IF pr.error = "" THEN "returned"
                                                    ELSE "raised",
                                        !.error = pr.error,
                                        !.probed = pr.probed,
                                        !.remote_ok = (pr.error # "TransportError")]
    /\ UNCHANGED <<media_body, sessions, objects, supplied, posts, _upload_id,
                   _resumable_uri, _range_md5>>
    /\ UNCHANGED <<dlvars, treevars, nodevars>>

(***************************************************************************)
(* The store (files().list / files().create) and Remotefolder.             *)
(***************************************************************************)
Root == 0

FolderMime == "application/vnd.google-apps.folder"

FileMime == "application/octet-stream"

\* Names are strings, kept as sequences of characters.
Names == { <<"a">>, <<"b">> }

Entry(id, parent, name, mime) ==
    [id |-> id, parent |-> parent, name |-> name, mimeType |-> mime]

FolderIds(st) == {Root} \cup { e.id : e \in { f \in st : f.mimeType = FolderMime } }

\* The entries the query "'<this>' in parents and name='<name>'" selects.
Matches(st, this, name) == { e \in st : e.parent = this /\ e.name = name }

PageSize == 1

\* The store's answers to files().list(pageSize=..., q=...): one page of the
\* matches, in any order, and a nextPageToken when matches remain.
ListReplies(st, this, name, page_size) ==
    LET found == Matches(st, this, name)
        k == Min(page_size, Cardinality(found))
    IN  { [files |-> page, nextPageToken |-> Cardinality(found) > k] :
            page \in { sq \in [1..k -> found] :
                         \A i, j \in 1..k : sq[i] = sq[j] => i = j } }

RemotefolderNode(parent, name, id) ==
    [class |-> "Remotefolder", parent |-> parent, name |-> name, id |-> id]

KeyNode(parent, key, id) ==
    [class |-> "Key", parent |-> parent, name |-> key, id |-> id]

\* Remotefolder._reply_to_object (lines 102-106)
ReplyToObject(this, reply) ==
    IF reply.mimeType = FolderMime
    THEN RemotefolderNode(this, reply.name, reply.id)
    ELSE KeyNode(this, reply.name, reply.id)

Returned(value) == [outcome |-> "returned", error |-> "", value |-> value]

Raised(error) == [outcome |-> "raised", error |-> error, value |-> None]

\* A child that never looks for a second page.
MorePagesIgnored(result) == FALSE

\* Line 49: "nextPageToken" in result
MorePages(result) == result.nextPageToken

\* Remotefolder.child (lines 43-53) on the folder with id this: every
\* outcome the store's answers allow.
Child(st, this, name) ==
    { IF MorePages(result)
      THEN Raised("Ambiguous")
      ELSE IF result.files = <<>>
      THEN Returned(None)
      ELSE Returned(Some(ReplyToObject(this, result.files[1]))) :
        result \in ListReplies(st, this, name, PageSize) }

\* hasattr(file_, "child") (line 58)
HasChild(node) == node.class = "Remotefolder"

\* A mkdir that takes no child for found.
FoundNever(file_) == FALSE

\* Line 57: if file_
Found(file_) == file_ # None

NoRes ==
    [op |-> "none", this |-> Root, arg |-> <<>>, outcome |-> "returned",
     error |-> "", value |-> None, creates |-> 0, child |-> Returned(None),
     repeat |-> None, raced |-> 0]

\* The id an immediately preceding mkdir(name) on the same folder returned,
\* no other client having written to the store since that call began.
RepeatOf(r, this, name) ==
    IF r.op = "mkdir" /\ r.this = this /\ r.arg = name /\ r.outcome = "returned"
          /\ r.raced = 0
    THEN Some(r.value[1].id)
    ELSE None

\* The stores other clients can leave between two requests of one call:
\* [store, next_id] after no, one or more creates of theirs.
RECURSIVE OtherClients(_, _, _)
OtherClients(st, nid, max) ==
    { [store |-> st, next_id |-> nid] }
        \cup
    IF Cardinality(st) < max
    THEN UNION { OtherClients(st \cup { Entry(nid, parent, name, mime) },
                              nid + 1, max) :
                   parent \in FolderIds(st), name \in Names,
                   mime \in {FolderMime, FileMime} }
    ELSE {}

\* Another client of the store adds an entry.
StoreCreate(max) ==
    /\ Cardinality(store) < max
    /\ \E parent \in FolderIds(store), name \in Names, mime \in {FolderMime, FileMime} :
          store' = store \cup { Entry(next_id, parent, name, mime) }
    /\ next_id' = next_id + 1
    /\ res' = NoRes
    /\ UNCHANGED <<dlvars, upvars, nodevars>>

ExternalCreate == StoreCreate(MaxEntries)

\* folder.child(name)
CallChild ==
    /\ \E this \in FolderIds(store), name \in Names :
         \E c \in Child(store, this, name) :
            res' = [NoRes EXCEPT !.op = "child", !.this = this, !.arg = name,
                                 !.outcome = c.outcome, !.error = c.error,
                                 !.value = c.value, !.child = c]
    /\ UNCHANGED <<store, next_id>>
    /\ UNCHANGED <<dlvars, upvars, nodevars>>

\* folder.mkdir(name) (lines 55-69)
CallMkdir ==
    /\ \E this \in FolderIds(store), name \in Names :
         \E c \in Child(store, this, name) :
            LET call == [NoRes EXCEPT !.op = "mkdir", !.this = this,
                                      !.arg = name, !.child = c,
                                      !.repeat = RepeatOf(res, this, name)]
            IN
            IF c.outcome = "raised"
            THEN /\ res' = [call EXCEPT !.outcome = "raised", !.error = c.error]
                 /\ UNCHANGED <<store, next_id>>
            ELSE IF Found(c.value)
            THEN /\ res' = IF ~HasChild(c.value[1])
                           THEN [call EXCEPT !.outcome = "raised",
                                             !.error = "TypeConflict"]
                           ELSE [call EXCEPT !.value = c.value]
                 /\ UNCHANGED <<store, next_id>>
            ELSE \* files().create(body=file_metadata, fields='id, name'), on the
                 \* store as other clients left it since the list
                 /\ Cardinality(store) < MaxEntries
                 /\ \E w \in OtherClients(store, next_id, MaxEntries - 1) :
                      LET result == Entry(w.next_id, this, name, FolderMime)
                      IN  /\ store' = w.store \cup { result }
                          /\ res' = [call EXCEPT
                                        !.value = Some(ReplyToObject(this, result)),
                                        !.creates = 1,
                                        !.raced = w.next_id - next_id]
                          /\ next_id' = w.next_id + 1
    /\ UNCHANGED <<dlvars, upvars, nodevars>>

\* folder.upload_key(key, local_file) (lines 71-87).  Line 77 formats its
\* message with name, which upload_key does not define: evaluating it
\* raises NameError before the Exception is built.
CallUploadKey ==
    /\ \E this \in FolderIds(store), key \in Names :
         \E c \in Child(store, this, key) :
            LET call == [NoRes EXCEPT !.op = "upload_key", !.this = this,
                                      !.arg = key, !.child = c]
            IN
            IF c.outcome = "raised"
            THEN /\ res' = [call EXCEPT !.outcome = "raised", !.error = c.error]
                 /\ UNCHANGED <<store, next_id>>
            ELSE IF Found(c.value)
            THEN /\ res' = [call EXCEPT !.outcome = "raised", !.error = "NameError"]
                 /\ UNCHANGED <<store, next_id>>
            ELSE \* files().create(body=file_metadata, media_body=media, fields='id'),
                 \* on the store as other clients left it since the list
                 /\ Cardinality(store) < MaxEntries
                 /\ \E w \in OtherClients(store, next_id, MaxEntries - 1) :
                      /\ store' = w.store \cup { Entry(w.next_id, this, key, FileMime) }
                      /\ res' = [call EXCEPT
                                    !.value = Some(KeyNode(this, key, w.next_id)),
                                    !.creates = 1,
                                    !.raced = w.next_id - next_id]
                      /\ next_id' = w.next_id + 1
    /\ UNCHANGED <<dlvars, upvars, nodevars>>

\* path.strip('/')
RECURSIVE LStrip(_)
LStrip(path) ==
    IF path # <<>> /\ Head(path) = "/" THEN LStrip(Tail(path)) ELSE path

RECURSIVE RStrip(_)
RStrip(path) ==
    IF path # <<>> /\ path[Len(path)] = "/"
    THEN RStrip(SubSeq(path, 1, Len(path) - 1))
    ELSE path

Strip(path) == RStrip(LStrip(path))

\* s.split('/', 1): one or two parts
SplitOnce(s) ==
    IF \E i \in 1..Len(s) : s[i] = "/"
    THEN LET i == CHOOSE i \in 1..Len(s) :
                    s[i] = "/" /\ \A j \in 1..(i - 1) : s[j] # "/"
         IN  << SubSeq(s, 1, i - 1), SubSeq(s, i + 1, Len(s)) >>
    ELSE << s >>

\* Remotefolder.child_from_path (lines 90-96) on the folder with id this:
\* [result, store, next_id], the store being the one the last list request
\* of the call was answered from.  Each segment is one list request, and
\* other clients may write between two of them.  The call on the child
\* (line 96) finds the method only on a Remotefolder.
RECURSIVE ChildFromPath(_, _, _, _, _)
ChildFromPath(st, nid, this, path, max) ==
    LET splitpath == SplitOnce(Strip(path))
        here(r) == [result |-> r, store |-> st, next_id |-> nid]
    IN  UNION {
          IF c.outcome = "raised" THEN { here(c) }
          ELSE IF Len(splitpath) = 1 THEN { here(c) }
          ELSE IF c.value = None THEN { here(Raised("AttributeError")) }
          ELSE IF c.value[1].class # "Remotefolder"
          THEN { here(Raised("AttributeError")) }
          ELSE UNION { ChildFromPath(w.store, w.next_id, c.value[1].id,
                                     splitpath[2], max) :
                         w \in OtherClients(st, nid, max) } :
            c \in Child(st, this, splitpath[1]) }

PathChars == {"/", "a", "b"}

Paths == UNION { [1..n -> PathChars] : n \in 0..MaxPathLen }

PathStoreCreate == StoreCreate(MaxPathEntries)

\* root.child_from_path(path)
CallChildFromPath ==
    /\ \E path \in Paths :
         \E c \in ChildFromPath(store, next_id, Root, path, MaxPathEntries) :
            /\ res' = [NoRes EXCEPT !.op = "child_from_path", !.this = Root,
                                    !.arg = path, !.outcome = c.result.outcome,
                                    !.error = c.result.error,
                                    !.value = c.result.value,
                                    !.raced = c.next_id - next_id]
            /\ store' = c.store
            /\ next_id' = c.next_id
    /\ UNCHANGED <<dlvars, upvars, nodevars>>

(***************************************************************************)
(* Node objects.  A node object is what the client holds: its attributes   *)
(* are the fields of the record, an attribute the object does not have is  *)
(* None.  Handle 1 is the GoogleDrive object.  The field removed is not an  *)
(* attribute: it records that a remove() on the object has succeeded.      *)
(***************************************************************************)
Object(class, parent, name, id) ==
    [class |-> class, parent |-> parent, name |-> name, id |-> id,
     _service |-> None, _annex |-> None, removed |-> FALSE]

\* GoogleDrive.__init__ (lines 228-230): creds and id, nothing else.
GoogleDriveObject == Object("GoogleDrive", None, <<>>, Some(Root))

\* Remotefolder._reply_to_object (lines 102-106) on the object with handle h.
ReplyObject(h, reply) ==
    IF reply.mimeType = FolderMime
    THEN Object("Remotefolder", Some(h), reply.name, Some(reply.id))
    ELSE Object("Key", Some(h), reply.name, Some(reply.id))

ServiceValues == {"drive_v3", "service_2"}

AnnexValues == {"annex_1"}

\* The service and annex properties (lines 23-27, 33-37, 115-121): the
\* object's own value when it is a folder that has one, else the parent's
\* property; reading self.parent on an object without that attribute raises.
RECURSIVE Inherited(_, _, _)
Inherited(hp, h, attr) ==
    LET o == hp[h]
    IN  IF o.class # "Key" /\ o[attr] # None THEN Returned(o[attr])
        ELSE IF o.parent = None THEN Raised("AttributeError")
        ELSE Inherited(hp, o.parent[1], attr)

NoLog ==
    [op |-> "none", handle |-> 1, arg |-> <<>>, outcome |-> "returned",
     error |-> "", value |-> None, sent |-> <<>>, id_before |-> None]

Request(method, id, name) == [method |-> method, id |-> id, name |-> name]

\* The entries a delete of id takes away: the entry and all below it.
RECURSIVE Under(_, _)
Under(st, id) ==
    {id} \cup UNION { Under(st, e.id) : e \in { f \in st : f.parent = id } }

\* The store's answers to files().list for the parent the query names.  The
\* query of an object without an id names the parent 'None', which no entry
\* has: the store answers with an empty page or refuses the query.
ListAnswers(st, id, name) ==
    IF id = None
    THEN { Returned(None), Raised("HttpError") }
    ELSE { IF MorePages(result)
           THEN Raised("Ambiguous")
           ELSE IF result.files = <<>>
           THEN Returned(None)
           ELSE Returned(Some(result.files[1])) :
             result \in ListReplies(st, id[1], name, PageSize) }

\* The answers to files().delete(fileId=id).execute(): "deleted", an error
\* of the store, or, for a fileId of None, the client library's refusal to
\* build the request.
DeleteAnswers(st, id) ==
    IF id = None THEN { "TypeError", "HttpError" }
    ELSE IF \E e \in st : e.id = id[1] THEN { "deleted", "HttpError" }
    ELSE { "HttpError" }

\* GoogleDrive.connect (lines 236-238), the credentials at hand.
Connect ==
    /\ heap' = [heap EXCEPT ![1]._service = Some("drive_v3")]
    /\ log' = [NoLog EXCEPT !.op = "connect"]
    /\ UNCHANGED <<dlvars, upvars, treevars>>

\* node.service = value, node.annex = value (lines 29-31, 39-41); a Key has
\* no setter.
SetAttribute ==
    /\ \E h \in DOMAIN heap, attr \in {"_service", "_annex"} :
         IF heap[h].class = "Key"
         THEN \* the properties of Key (lines 115-121) have no setter
              /\ log' = [NoLog EXCEPT !.op = "set", !.handle = h, !.arg = attr,
                                      !.outcome = "raised",
                                      !.error = "AttributeError"]
              /\ UNCHANGED heap
         ELSE /\ \E v \in IF attr = "_service" THEN ServiceValues
                                                ELSE AnnexValues :
                   heap' = [heap EXCEPT ![h][attr] = Some(v)]
              /\ log' = [NoLog EXCEPT !.op = "set", !.handle = h, !.arg = attr]
    /\ UNCHANGED <<dlvars, upvars, treevars>>

\* GoogleDrive.set_root(folder) (lines 232-234): the id is assigned before
\* the name is read; an object without the attribute name (a Key, which has
\* key instead, and the GoogleDrive object as it was built) makes line 234
\* raise.
SetRoot ==
    /\ \E f \in DOMAIN heap :
         LET call == [NoLog EXCEPT !.op = "set_root", !.handle = 1, !.arg = f,
                                   !.id_before = heap[1].id]
         IN  IF heap[f].class = "Key" \/ heap[f].name = <<>>
             THEN /\ heap' = [heap EXCEPT ![1].id = heap[f].id]
                  /\ log' = [call EXCEPT !.outcome = "raised",
                                         !.error = "AttributeError"]
             ELSE /\ heap' = [heap EXCEPT ![1].id = heap[f].id,
                                          ![1].name = heap[f].name]
                  /\ log' = call
    /\ UNCHANGED <<dlvars, upvars, treevars>>

\* node.service, node.annex
ReadAttribute ==
    /\ \E h \in DOMAIN heap, attr \in {"_service", "_annex"} :
         LET r == Inherited(heap, h, attr)
         IN  log' = [NoLog EXCEPT !.op = "read", !.handle = h, !.arg = attr,
                                  !.outcome = r.outcome, !.error = r.error,
                                  !.value = r.value, !.id_before = heap[h].id]
    /\ UNCHANGED heap
    /\ UNCHANGED <<dlvars, upvars, treevars>>

\* Another client adds an entry; the store never gives an id twice.
NodeStoreCreate ==
    /\ next_id <= MaxNodeEntries
    /\ StoreCreate(MaxNodeEntries)

\* node.child(name) (lines 43-53); a Key has no method child (line 58 tests
\* for it).
NodeChild ==
    /\ \E h \in DOMAIN heap, name \in Names :
         LET o == heap[h]
             call == [NoLog EXCEPT !.op = "child", !.handle = h, !.arg = name,
                                   !.id_before = o.id]
             service == Inherited(heap, h, "_service")
             sent == << Request("list", o.id, name) >>
         IN  IF o.class = "Key"
             THEN /\ log' = [call EXCEPT !.outcome = "raised",
                                         !.error = "AttributeError"]
                  /\ UNCHANGED heap
             ELSE IF service.outcome = "raised"
                THEN /\ log' = [call EXCEPT !.outcome = "raised",
                                            !.error = service.error]
                     /\ UNCHANGED heap
                ELSE \E a \in ListAnswers(store, o.id, name) :
                       IF a.outcome = "raised" \/ a.value = None
                       THEN /\ log' = [call EXCEPT !.outcome = a.outcome,
                                                   !.error = a.error,
                                                   !.sent = sent]
                            /\ UNCHANGED heap
                       ELSE /\ Len(heap) < MaxNodes
                            /\ heap' = Append(heap, ReplyObject(h, a.value[1]))
                            /\ log' = [call EXCEPT !.value = Some(Len(heap) + 1),
                                                   !.sent = sent]
    /\ UNCHANGED <<dlvars, upvars, treevars>>

\* node.remove() (lines 98-100, 123-125)
NodeRemove ==
    /\ \E h \in DOMAIN heap :
         LET o == heap[h]
             call == [NoLog EXCEPT !.op = "remove", !.handle = h,
                                   !.id_before = o.id]
             service == Inherited(heap, h, "_service")
             sent == << Request("delete", o.id, <<>>) >>
         IN  IF service.outcome = "raised"
             THEN /\ log' = [call EXCEPT !.outcome = "raised",
                                         !.error = service.error]
                  /\ UNCHANGED <<heap, store>>
             ELSE \E a \in DeleteAnswers(store, o.id) :
                    IF a = "deleted"
                    THEN /\ store' = { e \in store : e.id \notin Under(store, o.id[1]) }
                         /\ heap' = [heap EXCEPT ![h].id = None, ![h].removed = TRUE]
                         /\ log' = [call EXCEPT !.sent = sent]
                    ELSE /\ log' = [call EXCEPT !.outcome = "raised", !.error = a,
                                       !.sent = IF a = "TypeError" THEN <<>> ELSE sent]
                         /\ UNCHANGED <<heap, store>>
    /\ UNCHANGED <<next_id, res>>
    /\ UNCHANGED <<dlvars, upvars>>

NodeIdle ==
    /\ heap = << GoogleDriveObject >>
    /\ log = NoLog

(***************************************************************************)
(* Specifications: one per part of the program, the other parts at rest.   *)
(***************************************************************************)
UploadIdle ==
    /\ media_body = [data |-> <<1>>, chunksize |-> 1]
    /\ sessions = <<>>
    /\ _upload_id = None
    /\ _resumable_uri = None
    /\ _resumable_progress = None
    /\ _range_md5 = Md5New
    /\ objects = 1
    /\ calls = 0
    /\ supplied = None
    /\ posts = 0
    /\ last_call = NoCall

TreeIdle ==
    /\ store = {}
    /\ next_id = 1
    /\ res = NoRes

InitUpload ==
    /\ DownloadIdle
    /\ TreeIdle
    /\ NodeIdle
    /\ media_body \in MediaBodies
    /\ sessions = <<>>
    /\ _upload_id = None
    /\ _resumable_uri = ConstructedUri(None)
    /\ _resumable_progress = None
    /\ _range_md5 = Md5New
    /\ objects = 1
    /\ calls = 0
    /\ supplied = None
    /\ posts = 0
    /\ last_call = NoCall

NextUpload ==
    \/ NewRequest
    \/ NextChunk
    \/ ReadUploadId
    \/ ReadResumableProgress
    \/ SetUploadId
    \/ SetResumableUri

SpecUpload == InitUpload /\ [][NextUpload]_vars

InitDownload ==
    /\ UploadIdle
    /\ TreeIdle
    /\ NodeIdle
    /\ remote_obj \in RemoteObjects
    /\ chunksize \in 1..MaxChunk
    /\ local_file \in InitialFiles(remote_obj)
    /\ rpc = "idle"
    /\ local_file_size = 0
    /\ remote_file_size = 0
    /\ requests = <<>>
    /\ callbacks = <<>>
    /\ start_file = local_file
    /\ done = <<>>

NextDownload ==
    \/ ReceiveStart
    \/ ReceiveChunk

SpecDownload == InitDownload /\ [][NextDownload]_vars

\* receive runs its loop to the end: a turn of the loop that can be taken is
\* taken (the transport answers every request or fails it).
SpecDownloadFair ==
    InitDownload /\ [][NextDownload]_vars /\ WF_vars(ReceiveChunk)

InitTree ==
    /\ DownloadIdle
    /\ UploadIdle
    /\ TreeIdle
    /\ NodeIdle

NextTree ==
    \/ ExternalCreate
    \/ CallChild
    \/ CallMkdir
    \/ CallUploadKey

SpecTree == InitTree /\ [][NextTree]_vars

NextPath ==
    \/ PathStoreCreate
    \/ CallChildFromPath

SpecPath == InitTree /\ [][NextPath]_vars

NextNode ==
    \/ NodeStoreCreate
    \/ Connect
    \/ SetAttribute
    \/ SetRoot
    \/ ReadAttribute
    \/ NodeChild
    \/ NodeRemove

SpecNode == InitTree /\ [][NextNode]_vars

(***************************************************************************)
(* Properties of ResumableUploadRequest.                                   *)
(***************************************************************************)
\* C2 as stated: after a next_chunk that failed with a transport error or a
\* checksum mismatch the offset the object holds is the one the chunk was
\* sent from, and a fresh attempt on that session -- the same object again,
\* or a new object built from the upload_id -- that the remote answers
\* honestly returns without an error, sends its chunk to that session, and
\* starts it at the first byte the session does not hold yet.
C2_UploadResumable ==
    /\ (last_call.op = "next_chunk"
          /\ last_call.error \in {"TransportError", "ChecksumMismatch"}) =>
            _resumable_progress = last_call.progress_at_send
    /\ (last_call.op = "next_chunk" /\ last_call.retry # None
          /\ last_call.remote_ok) =>
            /\ last_call.outcome = "returned"
            /\ last_call.chunk # None =>
                  /\ last_call.chunk[1].uri = Uri(last_call.retry[1])
                  /\ last_call.chunk[1].offset = last_call.chunk[1].held

\* C3: when the remote answers a chunk with 308 and a digest that differs
\* from the running digest of the bytes sent, next_chunk raises the checksum
\* mismatch and _resumable_progress keeps the value the chunk was sent from.
C3_UploadIntegrity ==
    (/\ last_call.op = "next_chunk"
     /\ last_call.response # None
     /\ last_call.response[1].status = "308"
     /\ last_call.response[1].digest[1] # last_call.response[1].local) =>
        /\ last_call.outcome = "raised"
        /\ last_call.error = "ChecksumMismatch"
        /\ _resumable_progress = last_call.progress_at_send

C3_Witness ==
    /\ last_call.op = "next_chunk"
    /\ last_call.response # None
    /\ last_call.response[1].status = "308"
    /\ last_call.response[1].digest[1] # last_call.response[1].local
    /\ last_call.progress_at_send # None
    /\ last_call.chunk[1].offset >= 1

\* C14 as stated: whenever the remote answers a chunk of next_chunk with 308
\* and the digest of the bytes sent so far -- on a session resumed or on a
\* fresh one -- next_chunk returns and _resumable_progress is the offset the
\* chunk started at plus the length of the chunk.
C14_OffsetAdvance ==
    (/\ last_call.op = "next_chunk"
     /\ last_call.response # None
     /\ last_call.response[1].status = "308"
     /\ ~last_call.response[1].body
     /\ last_call.response[1].digest[1] = last_call.response[1].local) =>
        /\ last_call.outcome = "returned"
        /\ _resumable_progress =
              Some(last_call.chunk[1].offset + last_call.chunk[1].length)

\* C15 as stated: a chunk the remote answers with an error status, with or
\* without a body, makes next_chunk raise; it never returns as it does for
\* an accepted chunk or a finished upload.
C15_FailFast ==
    (/\ last_call.op = "next_chunk"
     /\ last_call.response # None
     /\ last_call.response[1].status \in ErrorStatuses) =>
        last_call.outcome = "raised"

\* C16 as stated: the first next_chunk on an object built with an upload_id
\* sends the probe before its chunk, and the chunk it sends goes to that
\* session and starts at the first byte the session does not hold.
C16_ProbeFirst ==
    (last_call.op = "next_chunk" /\ calls = 1 /\ supplied # None) =>
        /\ last_call.probed
        /\ last_call.chunk # None =>
              /\ last_call.chunk[1].uri = Uri(supplied[1])
              /\ last_call.chunk[1].offset = last_call.chunk[1].held

\* C17 as stated: over the calls made on one request object at most one
\* session is initiated by a POST, and none when the object was built with
\* an upload_id; every chunk goes to the endpoint the object holds, which is
\* that of the upload_id supplied when one was.
C17_SingleEndpoint ==
    /\ posts <= 1
    /\ supplied # None => posts = 0
    /\ (last_call.op = "next_chunk" /\ last_call.chunk # None) =>
          /\ _resumable_uri = Some(last_call.chunk[1].uri)
          /\ supplied # None => last_call.chunk[1].uri = Uri(supplied[1])

\* C19 as stated: between the calls on a request object _range_md5 is the
\* md5 of the first _resumable_progress bytes of the source (of no bytes
\* while no offset is confirmed).
C19_DigestOfConfirmed ==
    LET confirmed == IF _resumable_progress = None THEN 0
                     ELSE _resumable_progress[1]
    IN  HexDigest(_range_md5) = Md5Of(GetBytes(media_body, 0, confirmed))

(***************************************************************************)
(* Properties of the remote tree.                                          *)
(***************************************************************************)
\* C7: child(name) raises the ambiguity error and returns no entry when the
\* store holds two or more entries of that name under the folder; with no
\* match it returns None without raising; with one match it returns a
\* Remotefolder for a folder entry and a Key for any other.
C7_ChildByMatches ==
    res.op = "child" =>
        LET found == Matches(store, res.this, res.arg)
        IN  /\ Cardinality(found) >= 2 =>
                  /\ res.outcome = "raised"
                  /\ res.error = "Ambiguous"
                  /\ res.value = None
            /\ found = {} =>
                  /\ res.outcome = "returned"
                  /\ res.value = None
            /\ Cardinality(found) = 1 =>
                  \A e \in found :
                      /\ res.outcome = "returned"
                      /\ res.value # None
                      /\ res.value[1].id = e.id
                      /\ res.value[1].name = e.name
                      /\ res.value[1].parent = res.this
                      /\ res.value[1].class =
                            IF e.mimeType = FolderMime THEN "Remotefolder" ELSE "Key"

C7_Witness ==
    /\ res.op = "child"
    /\ Cardinality(Matches(store, res.this, res.arg)) >= 2
    /\ res.outcome = "raised"

\* C12 as stated: upload_key(key) on a folder that already holds a child
\* named key raises the already-exists error and issues no create; with no
\* such child it issues one create and returns a Key with the new id, the
\* given name and this folder as parent (no other client writing during
\* the call).
C12_NoOverwrite ==
    (res.op = "upload_key" /\ res.raced = 0) =>
        LET created == IF res.creates = 1
                       THEN { e \in store : e.id = next_id - 1 } ELSE {}
            existing == Matches(store, res.this, res.arg) \ created
        IN  /\ existing # {} =>
                  /\ res.outcome = "raised"
                  /\ res.error = "AlreadyExists"
                  /\ res.creates = 0
            /\ existing = {} =>
                  /\ res.outcome = "returned"
                  /\ res.creates = 1
                  /\ res.value = Some(KeyNode(res.this, res.arg, next_id - 1))
                  /\ created = { Entry(next_id - 1, res.this, res.arg, FileMime) }

\* The non-empty segments of a slash-separated path, in order.
RECURSIVE Segments(_)
Segments(path) ==
    LET parts == SplitOnce(path)
        rest == IF Len(parts) = 1 THEN <<>> ELSE Segments(parts[2])
    IN  IF path = <<>> THEN <<>>
        ELSE IF parts[1] = <<>> THEN rest
        ELSE <<parts[1]>> \o rest

\* Where resolving the segments one by one from folder this ends: at a
\* node, at a segment that does not exist, at a name the store holds twice,
\* or at a Key with segments left.
RECURSIVE Walk(_, _, _)
Walk(st, this, segs) ==
    LET found == Matches(st, this, Head(segs))
        e == CHOOSE e \in found : TRUE
    IN  IF found = {} THEN [kind |-> "missing", node |-> None]
        ELSE IF Cardinality(found) >= 2 THEN [kind |-> "ambiguous", node |-> None]
        ELSE IF Len(segs) = 1
        THEN [kind |-> "node", node |-> Some(ReplyToObject(this, e))]
        ELSE IF e.mimeType = FolderMime THEN Walk(st, e.id, Tail(segs))
        ELSE [kind |-> "through_key", node |-> None]

\* C8 as stated: child_from_path returns the node reached by resolving the
\* segments of the path in order, and returns None, without raising, when a
\* segment does not exist (no other client writing during the call).
C8_PathResolution ==
    (res.op = "child_from_path" /\ Segments(res.arg) # <<>> /\ res.raced = 0) =>
        LET w == Walk(store, Root, Segments(res.arg))
        IN  /\ w.kind = "node" =>
                  (res.outcome = "returned" /\ res.value = w.node)
            /\ w.kind = "missing" =>
                  (res.outcome = "returned" /\ res.value = None)

\* C9 as stated: resolving a path whose non-final segment is a Key fails
\* with an UnsupportedOperation error raised by the resolver, not with a
\* missing-attribute error of the lookup (no other client writing during
\* the call).
C9_KeyInPath ==
    (res.op = "child_from_path" /\ Segments(res.arg) # <<>> /\ res.raced = 0
        /\ Walk(store, Root, Segments(res.arg)).kind = "through_key") =>
            /\ res.outcome = "raised"
            /\ res.error = "UnsupportedOperation"

\* C10: a mkdir(name) that directly follows a mkdir(name) on the same folder
\* -- no other client having written to the store since the first began --
\* returns a node with the same id and issues no create request; a create
\* request is issued only when child(name) returned None, so never by a
\* mkdir whose list found an entry of that name under the folder, and the
\* entry created is the only one of that name unless another client wrote
\* between the list and the create.
C10_MkdirIdempotent ==
    res.op = "mkdir" =>
        /\ res.creates = 1 =>
              /\ res.child = Returned(None)
              /\ res.outcome = "returned"
              /\ \E e \in Matches(store, res.this, res.arg) :
                    e.id = res.value[1].id /\ e.mimeType = FolderMime
              /\ res.raced = 0 =>
                    Matches(store, res.this, res.arg)
                        = { e \in store : e.id = res.value[1].id }
        /\ res.child # Returned(None) => res.creates = 0
        /\ res.repeat # None =>
              /\ res.outcome = "returned"
              /\ res.value[1].id = res.repeat[1]
              /\ res.value[1].class = "Remotefolder"
              /\ res.creates = 0

C10_Witness ==
    /\ res.op = "mkdir"
    /\ res.repeat # None
    /\ res.outcome = "returned"
    /\ res.creates = 0
    /\ res.this # Root

(***************************************************************************)
(* Properties of node objects.                                             *)
(***************************************************************************)
\* C11 as stated: a remove() that succeeded has cleared the id of its node,
\* and every later operation on that node -- one called on a node without
\* an id -- raises an error and sends no request to the store.
C11_Tombstone ==
    /\ (log.op = "remove" /\ log.outcome = "returned") =>
          heap[log.handle].id = None
    /\ (log.op \in {"child", "remove"} /\ log.id_before = None
          /\ heap[log.handle].removed) =>
          /\ log.outcome = "raised"
          /\ log.sent = <<>>

\* The value set on the nearest of the node and its ancestors that has one
\* set, None when none of them has.
RECURSIVE Nearest(_, _, _)
Nearest(hp, h, attr) ==
    IF hp[h][attr] # None THEN hp[h][attr]
    ELSE IF hp[h].parent = None THEN None
    ELSE Nearest(hp, hp[h].parent[1], attr)

\* C13 as stated: reading service or annex on any node of a tree rooted at
\* a GoogleDrive object returns the value set on the nearest ancestor-or-self
\* that has one, and never fails: the walk ends at the root, which has both.
C13_ContextInheritance ==
    log.op = "read" =>
        /\ log.outcome = "returned"
        /\ log.value # None
        /\ log.value = Nearest(heap, log.handle, log.arg)

(***************************************************************************)
(* Properties of Key.receive.                                              *)
(***************************************************************************)
\* The invocations of receive so far, the running one last.
Running ==
    [start_file |-> start_file, outcome |-> "running", requests |-> requests,
     callbacks |-> callbacks, end_file |-> local_file,
     remote_size |-> Len(remote_obj)]

Invocations == IF rpc = "loop" THEN Append(done, Running) ELSE done

\* The bytes each accepted chunk of an invocation carried, in order.
ChunkLengths(inv) ==
    [j \in 1..Len(inv.callbacks) |-> Len(inv.requests[j].content)]

\* The byte count each progress callback of an invocation reports: the growth
\* of the cumulative value since the callback before it (since the size the
\* invocation found, for the first).
CallbackBytes(inv) ==
    [j \in 1..Len(inv.callbacks) |->
        inv.callbacks[j] - (IF j = 1 THEN GetSizeOrZero(inv.start_file)
                                     ELSE inv.callbacks[j - 1])]

\* The destination an uninterrupted receive leaves when it finds file f.
Uninterrupted(f, obj) ==
    File(f.data \o SubSeq(obj, Len(f.data) + 1, Len(obj)))

ChunkFailed(inv) ==
    /\ inv.outcome = "HttpError"
    /\ inv.requests # <<>>

\* C1: when a receive is interrupted by a failed chunk with N bytes in the
\* destination and receive is invoked again, the second invocation requests
\* ranges from offset N on only; when it returns it has downloaded exactly
\* remoteSize - N bytes and the destination is byte-identical to the one an
\* uninterrupted receive produces.
C1_Resumable ==
    \A i \in 1..(Len(Invocations) - 1) :
        LET first == Invocations[i]
            second == Invocations[i + 1]
            N == Len(first.end_file.data)
        IN  ChunkFailed(first) =>
              /\ \A j \in 1..Len(second.requests) :
                    second.requests[j].first >= N
              /\ second.requests # <<>> => second.requests[1].first = N
              /\ second.outcome = "returned" =>
                    /\ SumSeq([j \in 1..Len(second.requests) |->
                                 Len(second.requests[j].content)])
                          = second.remote_size - N
                    /\ second.end_file = Uninterrupted(first.start_file, remote_obj)

C1_Witness ==
    \E i \in 1..(Len(done) - 1) :
        /\ ChunkFailed(done[i])
        /\ Len(done[i].end_file.data) > Len(done[i].start_file.data)
        /\ done[i + 1].outcome = "returned"
        /\ Len(done[i + 1].requests) >= 2

\* C4 as stated: over one receive that runs to success the byte counts of
\* the progress callbacks sum to remoteSize, and the final callback's value
\* is remoteSize.
C4_AsStated ==
    \A i \in 1..Len(done) :
        done[i].outcome = "returned" =>
            /\ SumSeq(CallbackBytes(done[i])) = done[i].remote_size
            /\ done[i].callbacks # <<>> =>
                  done[i].callbacks[Len(done[i].callbacks)] = done[i].remote_size

\* C4 amended: over one receive that runs to success each callback reports
\* the bytes its chunk returned, the byte counts sum to the bytes that were
\* missing (remoteSize less the size the destination had, remoteSize for a
\* missing or empty destination, 0 for one already as large), and the final
\* callback's value, when a chunk was transferred, is remoteSize.
C4_ChunkAccounting ==
    \A i \in 1..Len(done) :
        done[i].outcome = "returned" =>
            LET inv == done[i]
                found == GetSizeOrZero(inv.start_file)
            IN  /\ Len(inv.callbacks) = Len(inv.requests)
                /\ CallbackBytes(inv) = ChunkLengths(inv)
                /\ SumSeq(CallbackBytes(inv)) = Max(inv.remote_size - found, 0)
                /\ found = 0 => SumSeq(CallbackBytes(inv)) = inv.remote_size
                /\ inv.callbacks # <<>> =>
                      inv.callbacks[Len(inv.callbacks)] = inv.remote_size

C4_Witness ==
    \E i \in 1..Len(done) :
        /\ done[i].outcome = "returned"
        /\ GetSizeOrZero(done[i].start_file) > 0
        /\ Len(done[i].callbacks) >= 2
        /\ done[i].callbacks[Len(done[i].callbacks)] = done[i].remote_size

\* C5: the first chunk answer whose status is not 206 ends the invocation
\* with the transport error: it is the last request of the invocation, no
\* progress callback is made for it, and the destination holds what it held
\* before plus every byte of the earlier chunks.
C5_FirstFailureAborts ==
    /\ \A i \in 1..Len(Invocations) :
          LET inv == Invocations[i]
              n == Len(inv.requests)
          IN  /\ \A j \in 1..n :
                    inv.requests[j].status # PartialContent =>
                        /\ j = n
                        /\ inv.outcome = "HttpError"
                        /\ Len(inv.callbacks) = n - 1
                        /\ inv.end_file.data =
                              inv.start_file.data
                                  \o Flatten([k \in 1..(n - 1) |-> inv.requests[k].content])
              /\ ChunkFailed(inv) => inv.requests[n].status # PartialContent
    /\ rpc = "raised" => requests = done[Len(done)].requests

C5_Witness ==
    \E i \in 1..Len(done) :
        /\ ChunkFailed(done[i])
        /\ Len(done[i].requests) >= 2
        /\ rpc = "raised"

\* C6 as stated: a receive that follows a receive which returned leaves the
\* destination as the first left it; it finds localSize = remoteSize, issues
\* no range request and appends nothing.
C6_Idempotent ==
    \A i \in 1..(Len(done) - 1) :
        (done[i].outcome = "returned" /\ done[i + 1].outcome = "returned") =>
            /\ done[i + 1].end_file = done[i].end_file
            /\ done[i + 1].requests = <<>>
            /\ GetSizeOrZero(done[i + 1].start_file) = done[i + 1].remote_size

\* Whether bytes a is a prefix of bytes b.
IsPrefix(a, b) == Len(a) <= Len(b) /\ a = SubSeq(b, 1, Len(a))

\* C18 as stated: a receive that returns leaves a destination whose size is
\* remoteSize and whose bytes are the remote object's, whether it found the
\* destination missing, empty, holding a prefix of the remote object, or
\* larger than the remote object.
C18_SuccessPostcondition ==
    \A i \in 1..Len(done) :
        (/\ done[i].outcome = "returned"
         /\ \/ IsPrefix(done[i].start_file.data, remote_obj)
            \/ Len(done[i].start_file.data) > done[i].remote_size) =>
            /\ Len(done[i].end_file.data) = done[i].remote_size
            /\ done[i].end_file.data = remote_obj

\* C20: with a transport whose 206 answers carry at least one byte, a receive
\* that entered its loop leaves it, returning or raising; an invocation makes
\* at most remoteSize - localSize range requests, localSize being the size it
\* found; each request starts at the size the destination has reached, which
\* every accepted chunk has increased, so the starts of the requests of one
\* invocation strictly increase and no range is requested twice.
C20_Termination ==
    /\ [](\A i \in 1..Len(Invocations) :
            LET inv == Invocations[i]
                found == GetSizeOrZero(inv.start_file)
            IN  /\ Len(inv.requests) <= Max(inv.remote_size - found, 0)
                /\ \A j \in 1..Len(inv.requests) :
                      /\ inv.requests[j].first =
                            found + SumSeq([k \in 1..(j - 1) |->
                                               Len(inv.requests[k].content)])
                      /\ j > 1 => inv.requests[j].first > inv.requests[j - 1].first)
    /\ (rpc = "loop") ~> (rpc \in {"returned", "raised"})

\* A receive that found a partial destination and returned after more than
\* one round-trip, the last of them cut short by the end of the object.
C20_Witness ==
    /\ rpc = "returned"
    /\ done # <<>>
    /\ LET inv == done[Len(done)]
       IN  /\ GetSizeOrZero(inv.start_file) > 0
           /\ Len(inv.requests) >= 2
           /\ inv.requests[Len(inv.requests)].last >= inv.remote_size

====
